---- MODULE Spec2Model ----
(***************************************************************************)
(* Model of the prescription accumulator of src/test_V3.py:                *)
(* PrescriptionExtractor keeps one accumulated PrescriptionData record and *)
(* merges every parsed model response into it.                             *)
(*                                                                         *)
(* Python strings are sequences of one-character strings, so that          *)
(* str.lower() and str.strip() are computed and not assumed.  Python dict  *)
(* objects live in a heap (a sequence of cells addressed by position): a   *)
(* list of medicines is a sequence of heap addresses, so that two lists    *)
(* holding the same dict object share its later updates, as in Python.     *)
(***************************************************************************)
EXTENDS Integers, Sequences, FiniteSets, TLC

VARIABLES
    heap,           \* the dict objects allocated so far, by address
    existing_data,  \* self.existing_data (medicines_names holds addresses)
    file,           \* the JSON document save_data wrote / load_data reads
    op,             \* the operation that ran last
    new_data,       \* the parsed response handed to the last merge
    prev_data,      \* the accumulated record handed to the last merge
    heap0,          \* the heap when the last merge was entered
    result,         \* what the last merge returned, or that it raised
    ret,            \* what the last operation returned
    applied,        \* the responses merged since the record was last replaced
                    \* whole (constructed, reset or loaded)
    calls,          \* number of calls so far that parsed a document
    other_data,     \* existing_data of a second PrescriptionExtractor
    candidate,      \* the parsed response a caller of both extractors holds
    actor           \* the extractor the last operation ran on

vars == <<heap, existing_data, file, op, new_data, prev_data, heap0, result,
          ret, applied, calls, other_data, candidate, actor>>

\* what the operations on the one extractor leave alone
peer == <<other_data, candidate, actor>>

----------------------------------------------------------------------------
(* Bounds of the model *)

\* extract_from_image calls per session
MaxCalls == 3

\* length of the medicine lists drawn for a direct call of the merge
MaxLen == 2

----------------------------------------------------------------------------
(* Strings *)

UPPER == <<"A", "B", "C", "D", "E", "F", "G", "H", "I", "J", "K", "L", "M",
           "N", "O", "P", "Q", "R", "S", "T", "U", "V", "W", "X", "Y", "Z">>

LOWER == <<"a", "b", "c", "d", "e", "f", "g", "h", "i", "j", "k", "l", "m",
           "n", "o", "p", "q", "r", "s", "t", "u", "v", "w", "x", "y", "z">>

WHITESPACE == {" ", "\t", "\n", "\r"}

\* the sentinel "none" and the empty string ""
NONE == <<"n", "o", "n", "e">>

EMPTY == <<>>

LowerChar(c) ==
    IF \E i \in DOMAIN UPPER : UPPER[i] = c
    THEN LOWER[CHOOSE i \in DOMAIN UPPER : UPPER[i] = c]
    ELSE c

\* str.lower()
Lower(s) == [i \in DOMAIN s |-> LowerChar(s[i])]

\* str.strip(): drop the leading and the trailing whitespace
Strip(s) ==
    LET keep == {i \in DOMAIN s : s[i] \notin WHITESPACE}
    IN  IF keep = {} THEN EMPTY
        ELSE LET lo == CHOOSE i \in keep : \A k \in keep : i <= k
                 hi == CHOOSE i \in keep : \A k \in keep : k <= i
             IN  SubSeq(s, lo, hi)

\* name.lower().strip(), the key medicines are matched by
Normalize(s) == Strip(Lower(s))

----------------------------------------------------------------------------
(* Records and dicts *)

\* the seven scalar fields, in the order the merge visits them
SCALAR_FIELDS == <<"pharmacy_or_doctor_name", "title_or_doctor_details",
                   "contact_details", "date", "address", "rx_number",
                   "store_number">>

ScalarFields == {SCALAR_FIELDS[i] : i \in DOMAIN SCALAR_FIELDS}

\* dict.get(key, default)
Get(d, key, default) == IF key \in DOMAIN d THEN d[key] ELSE default

\* asdict(Medicine()): the all-sentinel placeholder entry
Medicine == [medicine_name |-> NONE, description |-> NONE, qty |-> NONE,
             side_effects |-> NONE]

\* a heap cell: a dict object, or a list element that is not a dict
DictCell(d) == [isdict |-> TRUE, items |-> d]

StrCell(s) == [isdict |-> FALSE, items |-> [str |-> s]]

\* PrescriptionData(**kw): absent scalars default to "none", absent or null
\* medicines_names becomes [] in __post_init__
PrescriptionData(kw) ==
    [f \in ScalarFields \cup {"medicines_names"} |->
        IF f \in DOMAIN kw THEN kw[f]
        ELSE IF f = "medicines_names" THEN <<>> ELSE NONE]

\* asdict(record): the record with every medicine dict copied by value
AsDict(rec, h) ==
    [f \in DOMAIN rec |->
        IF f = "medicines_names"
        THEN [i \in DOMAIN rec[f] |-> h[rec[f][i]].items]
        ELSE rec[f]]

----------------------------------------------------------------------------
(* The merge: _merge_prescription_data and _merge_medicines *)

\* a name that takes part in matching: not empty and not the sentinel
IsRealNameNotEmpty(n) == n # EMPTY

IsRealName(n) == n # EMPTY /\ n # NONE

\* the branch of the scalar loop: new wins unless it is "none"
ReconcilePreferExisting(new_value, existing_value) ==
    IF existing_value # NONE THEN existing_value
    ELSE IF new_value # NONE THEN new_value
    ELSE NONE

Reconcile(new_value, existing_value) ==
    IF new_value # NONE THEN new_value
    ELSE IF existing_value # NONE THEN existing_value
    ELSE NONE

\* the loop over the seven scalar fields
MergeScalarsShortList(nd, existing) ==
    [f \in ScalarFields |->
        IF f = SCALAR_FIELDS[Len(SCALAR_FIELDS)] THEN NONE
        ELSE Reconcile(Get(nd, f, NONE), existing[f])]

MergeScalars(nd, existing) ==
    [f \in ScalarFields |-> Reconcile(Get(nd, f, NONE), existing[f])]

\* med.get('medicine_name') != "none": a dict without the key is kept
KeepsExisting(items) ==
    ~("medicine_name" \in DOMAIN items /\ items["medicine_name"] = NONE)

\* "Add existing medicines": the existing entries whose name is not "none"
ExistingKeptReversed(existing_medicines, h) ==
    LET Test(id) == KeepsExisting(h[id].items)
        kept == SelectSeq(existing_medicines, Test)
    IN  [i \in DOMAIN kept |-> kept[Len(kept) + 1 - i]]

ExistingKept(existing_medicines, h) ==
    LET Test(id) == KeepsExisting(h[id].items)
    IN  SelectSeq(existing_medicines, Test)

\* the key two entries are compared by in the scan for a match
MatchKeyRaw(items) == Get(items, "medicine_name", EMPTY)

MatchKey(items) == Normalize(Get(items, "medicine_name", EMPTY))

\* the scan for the first merged entry of that name; 0 stands for None
FindLastIndex(merged_medicines, med_name, h) ==
    LET hits == {i \in DOMAIN merged_medicines :
                    MatchKey(h[merged_medicines[i]].items) = med_name}
    IN  IF hits = {} THEN 0
        ELSE CHOOSE i \in hits : \A k \in hits : k <= i

FindIndex(merged_medicines, med_name, h) ==
    LET hits == {i \in DOMAIN merged_medicines :
                    MatchKey(h[merged_medicines[i]].items) = med_name}
    IN  IF hits = {} THEN 0
        ELSE CHOOSE i \in hits : \A k \in hits : i <= k

\* "Update existing medicine with new information": every item of new_med
\* that is neither "none" nor empty is written into the matched dict
UpdateEntry(old_items, new_items) ==
    LET written == {k \in DOMAIN new_items :
                       new_items[k] # NONE /\ new_items[k] # EMPTY}
    IN  [k \in DOMAIN old_items \cup written |->
            IF k \in written THEN new_items[k] ELSE old_items[k]]

\* "Add new medicine": the unmatched entry goes to the end of the list
AddNewFirst(merged_medicines, id) == <<id>> \o merged_medicines

AddNew(merged_medicines, id) == Append(merged_medicines, id)

\* the loop "for new_med in new_medicines", from its j-th element on.
\* A list element that is not a dict has no .get: the loop raises there,
\* after the updates it has already written into the matched dicts.
RECURSIVE MergeLoop(_, _, _, _)
MergeLoop(new_medicines, j, merged_medicines, h) ==
    IF j > Len(new_medicines)
    THEN [raised |-> FALSE, medicines |-> merged_medicines, heap |-> h]
    ELSE LET id == new_medicines[j] IN
         IF ~h[id].isdict
         THEN [raised |-> TRUE, medicines |-> merged_medicines, heap |-> h]
         ELSE LET new_med == h[id].items
                  med_name == MatchKey(new_med)
              IN  IF IsRealName(med_name)
                  THEN LET existing_index ==
                               FindIndex(merged_medicines, med_name, h)
                       IN  IF existing_index # 0
                           THEN LET at == merged_medicines[existing_index]
                                    h2 == [h EXCEPT ![at].items =
                                              UpdateEntry(h[at].items, new_med)]
                                IN  MergeLoop(new_medicines, j + 1,
                                              merged_medicines, h2)
                           ELSE MergeLoop(new_medicines, j + 1,
                                          AddNew(merged_medicines, id), h)
                  ELSE MergeLoop(new_medicines, j + 1, merged_medicines, h)

\* the return of _merge_medicines: the merged list, or a new one-element
\* list holding a new placeholder dict when nothing was merged
ResultOrEmpty(merged_medicines, h) ==
    [raised |-> FALSE, medicines |-> merged_medicines, heap |-> h]

ResultOrPlaceholder(merged_medicines, h) ==
    IF merged_medicines # <<>>
    THEN [raised |-> FALSE, medicines |-> merged_medicines, heap |-> h]
    ELSE [raised |-> FALSE, medicines |-> <<Len(h) + 1>>,
          heap |-> Append(h, DictCell(Medicine))]

\* _merge_medicines(new_medicines, existing_medicines) on heap h
MergeMedicines(new_medicines, existing_medicines, h) ==
    IF \E i \in DOMAIN existing_medicines : ~h[existing_medicines[i]].isdict
    THEN [raised |-> TRUE, medicines |-> <<>>, heap |-> h]
    ELSE LET r == MergeLoop(new_medicines, 1,
                            ExistingKept(existing_medicines, h), h)
         IN  IF r.raised THEN r
             ELSE ResultOrPlaceholder(r.medicines, r.heap)

\* _merge_prescription_data(new_data, existing_data) on heap h: the new
\* record (when nothing raised) and the heap the call leaves behind
MergePrescriptionData(nd, existing, h) ==
    LET m == MergeMedicines(Get(nd, "medicines_names", <<>>),
                            existing["medicines_names"], h)
    IN  [raised |-> m.raised,
         heap   |-> m.heap,
         merged |-> [f \in ScalarFields \cup {"medicines_names"} |->
                        IF f = "medicines_names" THEN m.medicines
                        ELSE MergeScalars(nd, existing)[f]]]

----------------------------------------------------------------------------
(* What the model call can answer, after json.loads in _parse_response *)

\* the medicine entries a response is built from: list elements by value
MedA == DictCell([medicine_name |-> <<"a">>, description |-> NONE,
                  qty |-> <<"q">>, side_effects |-> NONE])

MedA2 == DictCell([medicine_name |-> <<"A", " ">>, description |-> <<"d">>,
                   qty |-> NONE, side_effects |-> EMPTY])

MedB == DictCell([medicine_name |-> <<"b">>, qty |-> <<"r">>])

MedPlaceholder == DictCell(Medicine)

MedNoneName == DictCell([medicine_name |-> <<" ", "N", "o", "n", "e">>,
                         description |-> <<"d">>, qty |-> <<"q">>,
                         side_effects |-> NONE])

MedNoName == DictCell([description |-> <<"d">>, qty |-> EMPTY])

MedC == DictCell([medicine_name |-> <<"c">>, description |-> NONE,
                  qty |-> NONE, side_effects |-> <<"s">>])

NotADict == StrCell(<<"a">>)

MedPool == {MedA, MedA2, MedB, MedC, MedPlaceholder, MedNoneName, MedNoName,
            NotADict}

\* the entries an accumulated list handed to the merge is built from
ExistingMedPool == {MedA, MedB, MedPlaceholder, MedNoneName, MedNoName,
                    NotADict}

\* all lists of at most n elements of pool
Lists(pool, n) == UNION {[1..k -> pool] : k \in 0..n}

\* the scalar part of a response: any subset of the seven keys may be there
AllScalars(v) == [f \in ScalarFields |-> v]

OneScalar(f, v) == [g \in {f} |-> v]

ScalarDicts ==
    {AllScalars(<<"x">>), AllScalars(NONE), <<>>,
     [pharmacy_or_doctor_name |-> <<"y">>, date |-> NONE, address |-> EMPTY]}
    \cup {OneScalar(f, v) : f \in ScalarFields, v \in {<<"y">>, NONE, EMPTY}}

\* a response dict by value: scalar keys, and medicines_names when given
WithMedicines(scalars, meds) ==
    [f \in DOMAIN scalars \cup {"medicines_names"} |->
        IF f = "medicines_names" THEN meds ELSE scalars[f]]

\* _get_default_response(): what _parse_response returns for text that is
\* no JSON
DefaultResponse ==
    [scalars |-> AllScalars(NONE), has_meds |-> TRUE,
     cells |-> <<MedPlaceholder>>]

\* the responses a session is fed
SessionMedLists ==
    {<<MedA, MedA2>>, <<MedB, MedA>>, <<MedA2, NotADict>>,
     <<MedNoneName, MedNoName, MedB>>}

SessionScalars ==
    {OneScalar("date", <<"y">>),
     [pharmacy_or_doctor_name |-> <<"y">>, date |-> NONE, address |-> EMPTY]}

FullResponse ==
    [scalars |-> AllScalars(<<"x">>), has_meds |-> TRUE,
     cells |-> <<MedB, MedA>>]

SessionResponses ==
    {[scalars |-> sc, has_meds |-> FALSE, cells |-> <<>>] :
        sc \in SessionScalars}
    \cup {[scalars |-> <<>>, has_meds |-> TRUE, cells |-> ml] :
            ml \in SessionMedLists}
    \cup {FullResponse,
          [scalars |-> AllScalars(<<"x">>), has_meds |-> TRUE,
           cells |-> <<>>],
          DefaultResponse}

\* the responses asked for without merging
UnmergedResponses == {FullResponse, DefaultResponse}

\* json.loads builds new objects: the list elements of the response are
\* allocated after the cells of h, and the dict names them by address
Parse(resp, h) ==
    LET ids == [i \in DOMAIN resp.cells |-> Len(h) + i]
    IN  [heap |-> h \o resp.cells,
         data |-> IF resp.has_meds
                  THEN WithMedicines(resp.scalars, ids)
                  ELSE resp.scalars]

\* the parsed response by value, as extract_from_image returns it when
\* update_existing is False
ValueOf(resp) ==
    IF resp.has_meds
    THEN WithMedicines(resp.scalars,
                       [i \in DOMAIN resp.cells |-> resp.cells[i].items])
    ELSE resp.scalars

----------------------------------------------------------------------------
(* The session: PrescriptionExtractor *)

NoReturn == [kind |-> "none", value |-> <<>>]

ErrorReturn == [kind |-> "error", value |-> <<>>]

DataReturn(d) == [kind |-> "data", value |-> d]

NoFile == [exists |-> FALSE, doc |-> <<>>]

NoResult == [raised |-> FALSE, merged |-> PrescriptionData(<<>>)]

NoCandidate == [held |-> FALSE, data |-> <<>>]

\* the two extractors of a caller that runs two sessions
FIRST == "first"

SECOND == "second"

\* __init__: self.existing_data = PrescriptionData()
Init ==
    /\ heap = <<>>
    /\ existing_data = PrescriptionData(<<>>)
    /\ file = NoFile
    /\ op = "init"
    /\ new_data = <<>>
    /\ prev_data = PrescriptionData(<<>>)
    /\ heap0 = <<>>
    /\ result = NoResult
    /\ ret = NoReturn
    /\ applied = <<>>
    /\ calls = 0
    /\ other_data = PrescriptionData(<<>>)
    /\ candidate = NoCandidate
    /\ actor = FIRST

\* extract_from_image(): neither image_path nor image_url
ExtractNoImage ==
    /\ op' = "extract_no_image"
    /\ ret' = ErrorReturn
    /\ UNCHANGED <<heap, existing_data, file, new_data, prev_data, heap0,
                   result, applied, calls>>
    /\ UNCHANGED peer

\* extract_from_image(): encoding the image or the model call raises
ExtractApiError ==
    /\ op' = "extract_api_error"
    /\ ret' = ErrorReturn
    /\ UNCHANGED <<heap, existing_data, file, new_data, prev_data, heap0,
                   result, applied, calls>>
    /\ UNCHANGED peer

\* extract_from_image(update_existing=False): the parsed response is
\* returned and nothing is merged
ExtractNoUpdate(resp) ==
    /\ op' = "extract_no_update"
    /\ ret' = DataReturn(ValueOf(resp))
    /\ UNCHANGED <<heap, existing_data, file, new_data, prev_data, heap0,
                   result, applied, calls>>
    /\ UNCHANGED peer

\* extract_from_image(update_existing=True): the parsed response is merged
\* into self.existing_data; when the merge raises, the assignment is not
\* reached and the error result is returned
ExtractUpdate(resp) ==
    /\ calls < MaxCalls
    /\ LET p == Parse(resp, heap)
           m == MergePrescriptionData(p.data, existing_data, p.heap)
       IN  /\ new_data' = p.data
           /\ prev_data' = existing_data
           /\ heap0' = p.heap
           /\ heap' = m.heap
           /\ result' = [raised |-> m.raised, merged |-> m.merged]
           /\ IF m.raised
              THEN /\ op' = "extract_merge_error"
                   /\ ret' = ErrorReturn
                   /\ UNCHANGED <<existing_data, applied>>
              ELSE /\ op' = "extract_update"
                   /\ existing_data' = m.merged
                   /\ ret' = DataReturn(AsDict(m.merged, m.heap))
                   /\ applied' = Append(applied, p.data)
    /\ calls' = calls + 1
    /\ UNCHANGED <<file, peer>>

\* get_current_data()
GetCurrentData ==
    /\ op' = "get_current_data"
    /\ ret' = DataReturn(AsDict(existing_data, heap))
    /\ UNCHANGED <<heap, existing_data, file, new_data, prev_data, heap0,
                   result, applied, calls>>
    /\ UNCHANGED peer

\* reset_data()
ResetData ==
    /\ op' = "reset_data"
    /\ existing_data' = PrescriptionData(<<>>)
    /\ applied' = <<>>
    /\ ret' = NoReturn
    /\ UNCHANGED <<heap, file, new_data, prev_data, heap0, result, calls>>
    /\ UNCHANGED peer

Next ==
    \/ ExtractNoImage
    \/ ExtractApiError
    \/ \E resp \in UnmergedResponses : ExtractNoUpdate(resp)
    \/ \E resp \in SessionResponses : ExtractUpdate(resp)
    \/ GetCurrentData
    \/ ResetData

Spec == Init /\ [][Next]_vars

----------------------------------------------------------------------------
(* A direct call of _merge_prescription_data on any two records *)

\* the accumulated records the merge is called with
ExistingScalars ==
    {AllScalars(NONE), AllScalars(<<"x">>),
     [f \in ScalarFields |->
        IF f = "date" THEN <<"y">> ELSE IF f = "address" THEN EMPTY ELSE NONE]}

ExistingRecords ==
    {[scalars |-> AllScalars(NONE), cells |-> ml] :
        ml \in Lists(ExistingMedPool, MaxLen)}
    \cup {[scalars |-> sc, cells |-> ml] :
            sc \in ExistingScalars, ml \in {<<>>, <<MedA, MedB>>}}

\* the incoming records the merge is called with
CompleteScalars ==
    [f \in ScalarFields |->
        IF f = "date" THEN <<"y">>
        ELSE IF f = "address" THEN EMPTY
        ELSE IF f = "rx_number" THEN NONE
        ELSE <<"x">>]

MergeResponses ==
    {[scalars |-> CompleteScalars, has_meds |-> TRUE, cells |-> ml] :
        ml \in Lists(MedPool, MaxLen)}
    \cup {[scalars |-> sc, has_meds |-> FALSE, cells |-> <<>>] :
            sc \in ScalarDicts}
    \cup {FullResponse, DefaultResponse}

InitMerge ==
    /\ \E r \in ExistingRecords :
          /\ heap = r.cells
          /\ existing_data =
                WithMedicines(r.scalars, [i \in DOMAIN r.cells |-> i])
    /\ file = NoFile
    /\ op = "init"
    /\ new_data = <<>>
    /\ prev_data = PrescriptionData(<<>>)
    /\ heap0 = <<>>
    /\ result = NoResult
    /\ ret = NoReturn
    /\ applied = <<>>
    /\ calls = 0
    /\ other_data = PrescriptionData(<<>>)
    /\ candidate = NoCandidate
    /\ actor = FIRST

\* merged = self._merge_prescription_data(new_data, existing_data): the
\* caller keeps both arguments and gets the new record, or the exception
MergeCall(resp) ==
    /\ op = "init"
    /\ LET p == Parse(resp, heap)
           m == MergePrescriptionData(p.data, existing_data, p.heap)
       IN  /\ new_data' = p.data
           /\ prev_data' = existing_data
           /\ heap0' = p.heap
           /\ heap' = m.heap
           /\ result' = [raised |-> m.raised, merged |-> m.merged]
    /\ op' = "merge_call"
    /\ calls' = calls + 1
    /\ UNCHANGED <<existing_data, file, ret, applied, peer>>

NextMerge == \E resp \in MergeResponses : MergeCall(resp)

SpecMerge == InitMerge /\ [][NextMerge]_vars

----------------------------------------------------------------------------
(* Persistence: save_data and load_data *)

\* json.dump(asdict(self.existing_data)): the document save_data writes
SavedDocument(rec, h) ==
    [kind |-> "object",
     scalars |-> [f \in ScalarFields |-> rec[f]],
     has_meds |-> TRUE,
     cells |-> [i \in DOMAIN rec["medicines_names"] |->
                   h[rec["medicines_names"][i]]],
     extra_key |-> FALSE]

\* the documents load_data may be pointed at, besides the saved one: no
\* file, a JSON array, and objects with any of the keys absent or with a
\* key PrescriptionData does not take
StoredDocuments ==
    {[kind |-> "missing", scalars |-> <<>>, has_meds |-> FALSE,
      cells |-> <<>>, extra_key |-> FALSE],
     [kind |-> "array", scalars |-> <<>>, has_meds |-> FALSE,
      cells |-> <<>>, extra_key |-> FALSE],
     [kind |-> "object", scalars |-> <<>>, has_meds |-> FALSE,
      cells |-> <<>>, extra_key |-> FALSE],
     [kind |-> "object", scalars |-> OneScalar("date", <<"y">>),
      has_meds |-> FALSE, cells |-> <<>>, extra_key |-> FALSE],
     [kind |-> "object", scalars |-> OneScalar("date", <<"y">>),
      has_meds |-> TRUE, cells |-> <<MedA, MedB>>, extra_key |-> FALSE],
     [kind |-> "object", scalars |-> CompleteScalars,
      has_meds |-> FALSE, cells |-> <<>>, extra_key |-> FALSE],
     [kind |-> "object", scalars |-> CompleteScalars,
      has_meds |-> TRUE, cells |-> <<MedA, MedPlaceholder>>,
      extra_key |-> FALSE],
     [kind |-> "object", scalars |-> AllScalars(<<"x">>),
      has_meds |-> TRUE, cells |-> <<MedB>>, extra_key |-> TRUE]}

\* save_data(filename)
SaveData ==
    /\ op' = "save_data"
    /\ file' = [exists |-> TRUE, doc |-> SavedDocument(existing_data, heap)]
    /\ ret' = NoReturn
    /\ UNCHANGED <<heap, existing_data, new_data, prev_data, heap0, result,
                   applied, calls, peer>>

\* load_data(filename): self.existing_data = PrescriptionData(**data) when
\* the file opens and holds an object with known keys only; any exception
\* is logged and the accumulated record stays
LoadData(doc) ==
    /\ calls < MaxCalls
    /\ IF doc.kind = "object" /\ ~doc.extra_key
       THEN LET p == Parse(doc, heap)
            IN  /\ op' = "load_data"
                /\ new_data' = p.data
                /\ heap0' = p.heap
                /\ heap' = p.heap
                /\ existing_data' = PrescriptionData(p.data)
                /\ applied' = <<>>
       ELSE /\ op' = "load_error"
            /\ UNCHANGED <<heap, existing_data, new_data, heap0, applied>>
    /\ ret' = NoReturn
    /\ calls' = calls + 1
    /\ UNCHANGED <<file, prev_data, result, peer>>

\* the responses merged between saves and loads
PersistResponses ==
    {FullResponse, DefaultResponse,
     [scalars |-> <<>>, has_meds |-> TRUE, cells |-> <<MedA2, MedC>>]}

NextPersist ==
    \/ \E resp \in PersistResponses : ExtractUpdate(resp)
    \/ SaveData
    \/ \E doc \in StoredDocuments : LoadData(doc)
    \/ file.exists /\ LoadData(file.doc)
    \/ GetCurrentData
    \/ ResetData

SpecPersist == Init /\ [][NextPersist]_vars

----------------------------------------------------------------------------
(* Two sessions: a caller that keeps two extractors *)

\* the responses the caller of two extractors gets
TwoSessionResponses ==
    {FullResponse,
     [scalars |-> <<>>, has_meds |-> TRUE, cells |-> <<MedA2, MedC>>],
     [scalars |-> OneScalar("date", <<"y">>), has_meds |-> FALSE,
      cells |-> <<>>]}

\* parsed_data = self._parse_response(content): the caller now holds a
\* parsed response
ParseResponse(resp) ==
    /\ calls < MaxCalls
    /\ op # "parse_response"
    /\ LET p == Parse(resp, heap)
       IN  /\ heap' = p.heap
           /\ candidate' = [held |-> TRUE, data |-> p.data]
    /\ op' = "parse_response"
    /\ UNCHANGED <<existing_data, other_data, file, new_data, prev_data,
                   heap0, result, ret, applied, calls, actor>>

\* self.existing_data = self._merge_prescription_data(parsed_data,
\* self.existing_data) on extractor s, with the response the caller holds
ApplyExtraction(s) ==
    /\ calls < MaxCalls
    /\ candidate.held
    /\ LET mine == IF s = FIRST THEN existing_data ELSE other_data
           m == MergePrescriptionData(candidate.data, mine, heap)
       IN  /\ new_data' = candidate.data
           /\ prev_data' = mine
           /\ heap0' = heap
           /\ heap' = m.heap
           /\ result' = [raised |-> m.raised, merged |-> m.merged]
           /\ IF m.raised
              THEN /\ op' = "apply_error"
                   /\ UNCHANGED <<existing_data, other_data, applied>>
              ELSE /\ op' = "apply_extraction"
                   /\ IF s = FIRST
                      THEN /\ existing_data' = m.merged
                           /\ applied' = Append(applied, candidate.data)
                           /\ UNCHANGED other_data
                      ELSE /\ other_data' = m.merged
                           /\ UNCHANGED <<existing_data, applied>>
    /\ actor' = s
    /\ calls' = calls + 1
    /\ UNCHANGED <<file, ret, candidate>>

NextTwo ==
    \/ \E resp \in TwoSessionResponses : ParseResponse(resp)
    \/ \E s \in {FIRST, SECOND} : ApplyExtraction(s)

SpecTwo == Init /\ [][NextTwo]_vars

----------------------------------------------------------------------------
(* Vocabulary of the properties *)

\* the last operation ran the merge to its end
Merged == op \in {"extract_update", "merge_call"} /\ ~result.raised

\* the last operation entered the merge
MergeEntered == op \in {"extract_update", "extract_merge_error", "merge_call"}

\* the medicine lists the last merge was given and the one it returned
IncomingIds == Get(new_data, "medicines_names", <<>>)

ExistingIds == prev_data["medicines_names"]

ResultIds == result.merged["medicines_names"]

Range(seq) == {seq[i] : i \in DOMAIN seq}

\* the lower-cased, trimmed name of the entry at address id in heap h
\* ("" when the entry has no name)
NormalizedName(id, h) ==
    IF "medicine_name" \in DOMAIN h[id].items
    THEN Strip(Lower(h[id].items["medicine_name"]))
    ELSE EMPTY

\* the entry carries the sentinel as its name
HasSentinelName(id, h) ==
    /\ "medicine_name" \in DOMAIN h[id].items
    /\ h[id].items["medicine_name"] = NONE

\* the entry takes part in matching
HasRealName(id, h) ==
    NormalizedName(id, h) # EMPTY /\ NormalizedName(id, h) # NONE

\* the record of a new session
NewSessionRecord ==
    [f \in ScalarFields \cup {"medicines_names"} |->
        IF f = "medicines_names" THEN <<>> ELSE NONE]

\* the all-sentinel record with the one placeholder, by value
AllSentinelValue ==
    [f \in ScalarFields \cup {"medicines_names"} |->
        IF f = "medicines_names"
        THEN <<[medicine_name |-> NONE, description |-> NONE, qty |-> NONE,
                side_effects |-> NONE]>>
        ELSE NONE]

\* the incoming record of the last merge is the all-sentinel record
IncomingAllSentinel ==
    /\ DOMAIN new_data = ScalarFields \cup {"medicines_names"}
    /\ AsDict(new_data, heap0) = AllSentinelValue

----------------------------------------------------------------------------
(* C1: returns-new-record frame *)

\* C1: after a call of the merge, every medicine entry of the incoming
\* record and of the accumulated record it was given holds the values it
\* held when the call was entered.
C1_InputsUnchanged ==
    MergeEntered =>
        \A id \in Range(IncomingIds) \cup Range(ExistingIds) :
            heap[id] = heap0[id]

----------------------------------------------------------------------------
(* C2: merging the all-sentinel record is a no-op *)

\* C2: merging the all-sentinel incoming record into the accumulated record
\* of a session, the new session's record included, yields a record equal
\* to the accumulated one.
C2_NoOpMerge ==
    (op = "extract_update" /\ IncomingAllSentinel) =>
        AsDict(existing_data, heap) = AsDict(prev_data, heap0)

----------------------------------------------------------------------------
(* C3: scalar reconciliation *)

\* C3: each of the seven scalar fields of the merged record is the incoming
\* value when that is not "none" and the existing value otherwise,
\* whatever the other fields and the medicine lists hold.
C3_ScalarReconciliation ==
    Merged =>
        \A f \in ScalarFields :
            result.merged[f] =
                IF f \in DOMAIN new_data /\ new_data[f] # NONE
                THEN new_data[f]
                ELSE prev_data[f]

\* a merge where one field is overwritten by a differing incoming value and
\* another, "none" or absent in the incoming record, keeps a real value
C3_Witness ==
    /\ Merged
    /\ \E f, g \in ScalarFields :
          /\ f \in DOMAIN new_data /\ new_data[f] # NONE
          /\ prev_data[f] # NONE /\ prev_data[f] # new_data[f]
          /\ result.merged[f] = new_data[f]
          /\ (g \notin DOMAIN new_data \/ new_data[g] = NONE)
          /\ prev_data[g] # NONE
          /\ result.merged[g] = prev_data[g]

----------------------------------------------------------------------------
(* C4: no duplicate medicines *)

\* C4: no two entries of the accumulated record of a session have the same
\* normalized name.
C4_NoDuplicateMedicines ==
    LET meds == existing_data["medicines_names"]
    IN  \A i, j \in DOMAIN meds :
            i # j => NormalizedName(meds[i], heap) # NormalizedName(meds[j], heap)

\* a merge of a list that repeats a name in another casing, into a record
\* that ends with two medicines or more
C4_Witness ==
    /\ op = "extract_update"
    /\ Len(existing_data["medicines_names"]) >= 2
    /\ \E i, j \in DOMAIN IncomingIds :
          /\ i < j
          /\ heap0[IncomingIds[i]].isdict /\ heap0[IncomingIds[j]].isdict
          /\ HasRealName(IncomingIds[i], heap0)
          /\ NormalizedName(IncomingIds[i], heap0)
                = NormalizedName(IncomingIds[j], heap0)
          /\ heap0[IncomingIds[i]].items["medicine_name"]
                # heap0[IncomingIds[j]].items["medicine_name"]

----------------------------------------------------------------------------
(* C5: the fresh record *)

\* C5: get_current_data on a session that has merged nothing since it was
\* constructed or reset returns seven "none" scalars and a medicines list
\* of exactly one all-sentinel placeholder.
C5_FreshRecord ==
    (op = "get_current_data" /\ applied = <<>>) =>
        ret.value = AllSentinelValue

----------------------------------------------------------------------------
(* C6: the medicines list is never empty *)

\* no existing entry has a name other than "none" and no incoming entry has
\* a real name (an entry without a name key has no sentinel name)
NothingToMerge ==
    /\ \A id \in Range(ExistingIds) : HasSentinelName(id, heap0)
    /\ \A id \in Range(IncomingIds) : ~HasRealName(id, heap0)

\* C6: the list _merge_medicines returns is never empty, and it is exactly
\* one all-sentinel entry when no existing entry has a non-sentinel name
\* and no incoming entry has a real name.
C6_NonEmptyMedicines ==
    Merged =>
        /\ Len(ResultIds) >= 1
        /\ NothingToMerge =>
              AsDict(result.merged, heap)["medicines_names"]
                  = AllSentinelValue["medicines_names"]

\* a merge of a placeholder-only list into a placeholder-only list
C6_Witness ==
    /\ Merged
    /\ NothingToMerge
    /\ ExistingIds # <<>> /\ IncomingIds # <<>>
    /\ Len(ResultIds) = 1
    /\ ResultIds[1] \notin Range(ExistingIds) \cup Range(IncomingIds)

----------------------------------------------------------------------------
(* C7: order preservation *)

\* the existing entries the merge keeps: those whose name is not "none"
C7_Kept ==
    LET Test(id) == ~HasSentinelName(id, heap0)
    IN  SelectSeq(ExistingIds, Test)

\* the incoming entries that match nothing: a real name that no kept entry
\* and no earlier incoming entry carries
C7_Appended ==
    LET Test(id) ==
            /\ HasRealName(id, heap0)
            /\ \A k \in Range(C7_Kept) :
                  NormalizedName(k, heap0) # NormalizedName(id, heap0)
            /\ \A e \in Range(IncomingIds) :
                  e < id => NormalizedName(e, heap0) # NormalizedName(id, heap0)
    IN  SelectSeq(IncomingIds, Test)

\* C7: the merged list is the existing entries with a non-sentinel name, in
\* their order, followed by the incoming entries that matched nothing, in
\* their incoming order; no such entry is removed or moved.
C7_OrderPreserved ==
    (Merged /\ C7_Kept \o C7_Appended # <<>>) =>
        ResultIds = C7_Kept \o C7_Appended

\* two existing entries kept, one incoming entry matched and one appended
C7_Witness ==
    /\ Merged
    /\ Len(C7_Kept) >= 2
    /\ Len(C7_Appended) >= 1
    /\ Len(IncomingIds) > Len(C7_Appended)
    /\ \E id \in Range(C7_Kept) : heap[id] # heap0[id]
    /\ ResultIds = C7_Kept \o C7_Appended

----------------------------------------------------------------------------
(* C8: last write wins over a sequence of merges *)

\* the value field f had in the most recent of the merged responses that
\* set it, "none" when none did
RECURSIVE LastWritten(_, _)
LastWritten(f, history) ==
    IF history = <<>> THEN NONE
    ELSE LET last == history[Len(history)]
         IN  IF f \in DOMAIN last /\ last[f] # NONE THEN last[f]
             ELSE LastWritten(f, SubSeq(history, 1, Len(history) - 1))

\* C8: after any sequence of merges into a new session, every scalar field
\* holds the value of the most recent incoming record that set it, and
\* "none" when none did.
C8_LastWriteWins ==
    \A f \in ScalarFields : existing_data[f] = LastWritten(f, applied)

\* three merges: the first two set a field to different values, the third
\* leaves it "none" or absent
C8_Witness ==
    /\ Len(applied) >= 3
    /\ \E f \in ScalarFields :
          /\ f \in DOMAIN applied[1] /\ f \in DOMAIN applied[2]
          /\ applied[1][f] # NONE /\ applied[2][f] # NONE
          /\ applied[1][f] # applied[2][f]
          /\ (f \notin DOMAIN applied[3] \/ applied[3][f] = NONE)
          /\ existing_data[f] = applied[2][f]

----------------------------------------------------------------------------
(* C10: the first merge into an empty record *)

\* the incoming record of the last merge has the seven scalars, and its
\* medicines all have real and pairwise distinct normalized names
C10_IncomingComplete ==
    /\ DOMAIN new_data = ScalarFields \cup {"medicines_names"}
    /\ \A id \in Range(IncomingIds) :
          heap0[id].isdict /\ HasRealName(id, heap0)
    /\ \A i, j \in DOMAIN IncomingIds :
          i # j => NormalizedName(IncomingIds[i], heap0)
                      # NormalizedName(IncomingIds[j], heap0)

\* C10 as stated: merging such a record into the record of a new session
\* yields a record equal to the incoming one.
C10_FirstMergeEqualsIncoming ==
    (Merged /\ prev_data = NewSessionRecord /\ C10_IncomingComplete) =>
        AsDict(result.merged, heap) = AsDict(new_data, heap0)

\* C10 amended: merging such a record with at least one medicine into the
\* record of a new session yields a record equal to the incoming one.
C10_FirstMergeEqualsIncomingNonEmpty ==
    (Merged /\ prev_data = NewSessionRecord /\ C10_IncomingComplete
        /\ IncomingIds # <<>>) =>
        AsDict(result.merged, heap) = AsDict(new_data, heap0)

\* a complete record with two medicines, one of them with a name in mixed
\* case, was merged into the record of a new session
C10_Witness ==
    /\ Merged
    /\ prev_data = NewSessionRecord
    /\ C10_IncomingComplete
    /\ Len(IncomingIds) >= 2
    /\ \E id \in Range(IncomingIds) :
          heap0[id].items["medicine_name"] # NormalizedName(id, heap0)
    /\ \E f \in ScalarFields : new_data[f] # NONE
    /\ AsDict(result.merged, heap) = AsDict(new_data, heap0)

----------------------------------------------------------------------------
(* C9: defaults on reload *)

\* C9: after load_data read a stored object, every scalar field the object
\* lacks is "none", medicines is the one-placeholder list when the object
\* lacks it, and every field the object holds is loaded unchanged.
C9_ReloadDefaults ==
    op = "load_data" =>
        /\ \A f \in ScalarFields :
              existing_data[f] = IF f \in DOMAIN new_data THEN new_data[f]
                                 ELSE NONE
        /\ AsDict(existing_data, heap)["medicines_names"] =
              IF "medicines_names" \in DOMAIN new_data
              THEN AsDict(new_data, heap0)["medicines_names"]
              ELSE AllSentinelValue["medicines_names"]

----------------------------------------------------------------------------
(* C12: the update of the matched entry *)

\* the list the last incoming entry is matched against, when every incoming
\* entry before it was skipped or appended
C12_Scanned == C7_Kept \o C7_Appended

\* the last entry of the incoming list
C12_Last == IncomingIds[Len(IncomingIds)]

\* the last incoming entry has a real name that an entry of the scanned
\* list carries, and it is the only incoming entry that matches anything
C12_LastMatches ==
    /\ Merged
    /\ IncomingIds # <<>>
    /\ HasRealName(C12_Last, heap0)
    /\ LET scanned == C12_Scanned
           name == NormalizedName(C12_Last, heap0)
       IN  \E i \in DOMAIN scanned :
              /\ scanned[i] # C12_Last
              /\ NormalizedName(scanned[i], heap0) = name
    /\ LET appended == Range(C7_Appended)
       IN  \A id \in Range(IncomingIds) :
              id # C12_Last =>
                  \/ ~HasRealName(id, heap0)
                  \/ id \in appended

\* the places of the scanned list that carry the name of the last incoming
\* entry
C12_Hits(scanned) ==
    LET name == NormalizedName(C12_Last, heap0)
    IN  {i \in DOMAIN scanned : NormalizedName(scanned[i], heap0) = name}

\* the first entry in scan order that carries the name of the last
\* incoming entry
C12_Target ==
    LET scanned == C12_Scanned
        hits == C12_Hits(scanned)
    IN  scanned[CHOOSE i \in hits : \A k \in hits : i <= k]

\* field k of the matched entry t after the update: the incoming value when
\* that is neither "none" nor empty, the prior value otherwise
C12_Expected(t, k) ==
    LET inc == heap0[C12_Last].items
    IN  IF k \in DOMAIN inc /\ inc[k] # NONE /\ inc[k] # EMPTY
        THEN inc[k]
        ELSE heap0[t].items[k]

\* C12: when an incoming entry's normalized name is that of a result entry,
\* only the first such entry in scan order changes; each of its fields is
\* the incoming value when that is neither "none" nor empty and its prior
\* value otherwise; its normalized name stays, nothing is appended and
\* every other entry is untouched.
C12_MatchedEntryUpdate ==
    C12_LastMatches =>
        LET t == C12_Target
        IN  /\ ResultIds = C12_Scanned
            /\ \A id \in DOMAIN heap0 : id # t => heap[id] = heap0[id]
            /\ \A k \in DOMAIN heap[t].items :
                  heap[t].items[k] = C12_Expected(t, k)
            /\ \A k \in DOMAIN heap0[t].items \cup
                        {j \in DOMAIN heap0[C12_Last].items :
                            heap0[C12_Last].items[j] # NONE
                            /\ heap0[C12_Last].items[j] # EMPTY} :
                  k \in DOMAIN heap[t].items
            /\ NormalizedName(t, heap) = NormalizedName(t, heap0)

\* the existing list holds the name twice; the incoming entry changed a
\* field of the first, kept another field of it and left the second alone
C12_Witness ==
    /\ C12_LastMatches
    /\ Cardinality(C12_Hits(C12_Scanned)) >= 2
    /\ LET t == C12_Target
       IN  /\ heap[t] # heap0[t]
           /\ \E k \in DOMAIN heap0[t].items :
                 /\ k \in DOMAIN heap0[C12_Last].items
                 /\ heap0[C12_Last].items[k] \in {NONE, EMPTY}
                 /\ heap0[t].items[k] # NONE
                 /\ heap[t].items[k] = heap0[t].items[k]

----------------------------------------------------------------------------
(* C13: the placeholder never coexists with real data *)

\* the incoming entries of the last merge without a real name
C13_Unnamed ==
    {id \in Range(IncomingIds) : heap0[id].isdict /\ ~HasRealName(id, heap0)}

\* C13: in the accumulated record of a session an entry whose normalized
\* name is empty or "none" is the only entry of the list and is the
\* all-sentinel placeholder; an incoming entry with such a name is not in
\* the list after its merge, and a merge of such entries alone leaves
\* every entry of the accumulated list as it was.
C13_PlaceholderAlone ==
    LET meds == existing_data["medicines_names"]
    IN  /\ \A i \in DOMAIN meds :
              ~HasRealName(meds[i], heap) =>
                  Len(meds) = 1 /\ heap[meds[1]].items = Medicine
        /\ op = "extract_update" =>
              /\ C13_Unnamed \cap Range(meds) = {}
              /\ Range(IncomingIds) = C13_Unnamed =>
                    \A id \in Range(ExistingIds) : heap[id] = heap0[id]

\* a response with a " None" name, a nameless entry and a real medicine
\* was merged into a record that held a medicine
C13_Witness ==
    /\ op = "extract_update"
    /\ Cardinality(C13_Unnamed) >= 2
    /\ \E id \in C13_Unnamed :
          /\ "medicine_name" \in DOMAIN heap0[id].items
          /\ heap0[id].items["medicine_name"] \notin {NONE, EMPTY}
    /\ \E id \in Range(ExistingIds) : HasRealName(id, heap0)
    /\ Len(existing_data["medicines_names"]) >= 2
    /\ \A id \in Range(existing_data["medicines_names"]) :
          HasRealName(id, heap)

----------------------------------------------------------------------------
(* C14: the accumulated record is unchanged on error *)

\* C14: a call of extract_from_image that returns an error result (no
\* image, the model call raised, the merge raised) or that ran with
\* update_existing=False leaves what get_current_data returns as it was
\* before the call.
C14_StateUnchangedOnError ==
    [][op' \in {"extract_no_image", "extract_api_error",
                "extract_merge_error", "extract_no_update"}
         => AsDict(existing_data', heap') = AsDict(existing_data, heap)]_vars

----------------------------------------------------------------------------
(* C11: session isolation under interleaving *)

\* the record of the extractor the last operation did not run on
C11_OtherRecord == IF actor = FIRST THEN other_data ELSE existing_data

\* C11: a merge performed in one session leaves the record of the other
\* session as it was, whatever the interleaving and also when one incoming
\* record is applied to both sessions; so each session's record is what
\* its own merges alone make it.
C11_SessionIsolation ==
    op \in {"apply_extraction", "apply_error"} =>
        AsDict(C11_OtherRecord, heap) = AsDict(C11_OtherRecord, heap0)

====
